---------------------------- MODULE Spec2Model ----------------------------
(***************************************************************************)
(* State-machine model of the three frame producers of the LED-matrix       *)
(* repository and of their hand-off to the double-buffered display:         *)
(*   "udp"    src/src/udp_matrix_receiver.cc  (chunked datagram receiver)   *)
(*   "stream" src/unnamed/part_002            (matrix_daemon, TCP stream)   *)
(*   "local"  src/src/local_shader.cc         (local pattern source)        *)
(* One process runs one producer; prog says which one this behaviour is.    *)
(*                                                                         *)
(* The display is 256x192 and a chunk is 1024 bytes in the source.  The     *)
(* model keeps the code and scales the geometry down to 2x2 pixels and      *)
(* 4-byte chunks, so that FRAME_BYTES = 12 = 3 * CHUNK_SIZE.  The scaling   *)
(* keeps the one arithmetic fact of the source geometry the code relies     *)
(* on: FRAME_BYTES is a multiple of CHUNK_SIZE (147456 = 144 * 1024).       *)
(***************************************************************************)
EXTENDS Integers, Sequences, FiniteSets, Bags, TLC

\* ---- program constants (geometry scaled, see above) ----
WIDTH == 2
HEIGHT == 2
CHUNK_SIZE == 4
HEADER_SIZE == 6
LOGICAL_WIDTH == 2
LOGICAL_HEIGHT == 2
LISTEN_BACKLOG == 1

FRAME_BYTES == WIDTH * HEIGHT * 3
expected_size == LOGICAL_WIDTH * LOGICAL_HEIGHT * 3

\* ---- bounds of the model ----
MaxDatagrams == 4
MaxConns == 2
MaxStreamFrames == 2
MaxTicks == 3
MaxCompiles == 4

VARIABLES
  prog,               \* which producer this process is
  pc,                 \* where the producer's main stands
  exit_status,        \* main's return value (-1 while it runs)
  diag,               \* the diagnostic a failed setup step printed ("": none)
  interrupt_received, \* the signal handler's flag
  offscreen,          \* the producer's FrameCanvas handle
  front,              \* the canvas the display driver shows
  canvas,             \* pixel contents of each canvas
  rp,                 \* render loop cursor (pixels written so far)
  scan,               \* display driver: the row its refresh pass reads next
  scanout,            \* display driver: the rows read so far in this pass
  \* datagram receiver
  frame_buf, current_frame_id, expected_packets, got_packet, received_packets,
  nrecv,              \* datagrams received so far (bounded by MaxDatagrams)
  offered,            \* history: datagrams parsed with the current frame_id
                      \* since that id became current
  abandoned,          \* history: frame ids N that a chunk of id N+1
                      \* superseded while frame N was incomplete
  completed,          \* history: <<frame_id, frame bytes>> of each frame at
                      \* the step its received count reached the expected
                      \* count, in order
  \* stream daemon
  client,             \* accepted connection (0: none)
  buffer, total,      \* static frame buffer and ReadNBytes' cursor
  sent, pos,          \* the peer's byte stream and how much of it was read
  delivered,          \* history: frames the current connection completed
  nconn,              \* connections accepted so far (bounded by MaxConns)
  pending,            \* connections established by peers and waiting in
                      \* the listen queue for accept
  open_clients,       \* accepted client sockets not closed yet
  read_while_pending, \* history: bytes were read from a client while
                      \* another peer was waiting in the listen queue
  \* local pattern source
  t,                  \* frame time of the local shader (ticks)
  \* browser editor
  gl,                 \* a WebGL context was obtained
  vertexShader,       \* the vertex shader object (0: null)
  errorLog,           \* the error-log element: present, textContent and
                      \* whether it carries the class error-present
  currentProgram,     \* the program the render loop draws with (0: null)
  uniformLocations,   \* the program whose uniform locations are held
                      \* (0: the empty object)
  gl_live,            \* GL shader and program objects not deleted
  gl_created,         \* GL shader and program objects created so far
  used_program,       \* the program of the render loop's last useProgram
  ncompile,           \* calls of compileAndUseShader so far
  last_call           \* history: the outcome of the last call of
                      \* compileAndUseShader and the state it started from

udpVars == <<frame_buf, current_frame_id, expected_packets, got_packet,
             received_packets, nrecv, offered, abandoned, completed>>
streamVars == <<client, buffer, total, sent, pos, delivered, nconn, pending,
               open_clients, read_while_pending>>
dispVars == <<offscreen, front, canvas, rp>>
procVars == <<exit_status, diag>>
driverVars == <<scan, scanout>>
editorVars == <<gl, vertexShader, errorLog, currentProgram, uniformLocations,
               gl_live, gl_created, used_program, ncompile, last_call>>
vars == <<prog, pc, procVars, interrupt_received, dispVars, driverVars,
          udpVars, streamVars, t, editorVars>>

Min(a, b) == IF a < b THEN a ELSE b

\* ------------------------------------------------------------------------
\* Display library boundary (rpi-rgb-led-matrix, not part of the sources)
\* ------------------------------------------------------------------------
Handles == {"c0", "c1"}
Black == <<0, 0, 0>>
BlankCanvas == [i \in 0..(WIDTH * HEIGHT - 1) |-> Black]

\* FrameCanvas::SetPixel(x, y, r, g, b) on canvas contents cv
SetPixel(cv, x, y, r, g, b) == [cv EXCEPT ![y * WIDTH + x] = <<r, g, b>>]

\* RGBMatrix::SwapOnVSync(other): other becomes the displayed canvas, the
\* previously displayed one is returned
SwapOnVSync(cur_front, other) == [front |-> other, ret |-> cur_front]

\* RGBMatrix::Clear(): blanks the displayed canvas
Clear(cvs, cur_front) == [cvs EXCEPT ![cur_front] = BlankCanvas]

\* row y of canvas contents cv
CanvasRow(cv, y) == [x \in 0..(WIDTH - 1) |-> cv[y * WIDTH + x]]

\* The driver's refresh runs concurrently with the producer: each step
\* reads the next row of the canvas on display; a pass ends after the last
\* row.  SwapOnVSync takes effect between two passes (scan = 0).  The
\* position of the driver is tracked while the producer renders; a pass
\* that overlaps no producer write or swap is not distinguished.
DriverScanRow ==
  /\ pc = "render"
  /\ IF scan = HEIGHT - 1
     THEN scan' = 0 /\ scanout' = <<>>
     ELSE /\ scan' = scan + 1
          /\ scanout' = Append(scanout, CanvasRow(canvas[front], scan))
  /\ UNCHANGED <<prog, editorVars, pc, procVars, interrupt_received, dispVars, udpVars,
                 streamVars, t>>

\* mutant: pixels are written to the canvas on display
RenderTarget_Front(off, fr) == fr

\* the canvas the render loop calls SetPixel on: `offscreen->SetPixel(...)`
RenderTarget(off, fr) == off

\* evaluation of `while (!interrupt_received)` at a loop head
LoopTest(flag, body) == IF flag THEN "exit" ELSE body

\* ------------------------------------------------------------------------
\* Startup of the three programs
\* ------------------------------------------------------------------------
\* the setup calls in the order main makes them
SetupStages(p) ==
  IF p = "udp" THEN <<"setup_matrix", "setup_socket", "setup_bind">>
  ELSE IF p = "stream"
  THEN <<"setup_matrix", "setup_socket", "setup_bind", "setup_listen">>
  ELSE <<"setup_matrix">>

AllSetupStages == {"setup_matrix", "setup_socket", "setup_bind", "setup_listen"}

\* the blocking call (or loop body) at the top of the main loop
LoopBody(p) ==
  IF p = "udp" THEN "recv" ELSE IF p = "stream" THEN "accept" ELSE "render"

StageIndex(p, stage) ==
  CHOOSE i \in 1..Len(SetupStages(p)) : SetupStages(p)[i] = stage

\* what follows a successful setup call: the next call, or the first test
\* of the main loop
AfterSetup(p, stage, flag) ==
  LET i == StageIndex(p, stage) IN
  IF i < Len(SetupStages(p)) THEN SetupStages(p)[i + 1]
  ELSE LoopTest(flag, LoopBody(p))

\* fprintf(stderr, "Could not create RGBMatrix\n") / perror("socket") / ...
Diagnostic(stage) ==
  IF stage = "setup_matrix" THEN "Could not create RGBMatrix"
  ELSE IF stage = "setup_socket" THEN "socket"
  ELSE IF stage = "setup_bind" THEN "bind"
  ELSE "listen"

\* mutant: the failure is reported but main goes on
SetupFailure_GoesOn(p, stage, flag) ==
  [pc |-> AfterSetup(p, stage, flag), exit_status |-> -1,
   diag |-> Diagnostic(stage)]

\* the failure branch of a setup call: diagnostic, then `return 1`
SetupFailure(p, stage, flag) ==
  [pc |-> "failed", exit_status |-> 1, diag |-> Diagnostic(stage)]

\* one setup call of main; ok says whether the call succeeded
SetupStep(ok) ==
  /\ pc \in AllSetupStages
  /\ LET r == IF ok
              THEN [pc |-> AfterSetup(prog, pc, interrupt_received),
                    exit_status |-> exit_status, diag |-> diag]
              ELSE SetupFailure(prog, pc, interrupt_received)
     IN pc' = r.pc /\ exit_status' = r.exit_status /\ diag' = r.diag
  /\ UNCHANGED <<prog, editorVars, interrupt_received, dispVars, driverVars, udpVars,
                 streamVars, t>>

\* ------------------------------------------------------------------------
\* Datagram receiver: src/src/udp_matrix_receiver.cc
\* ------------------------------------------------------------------------
RS == [current_frame_id |-> current_frame_id,
       expected_packets |-> expected_packets,
       got_packet |-> got_packet,
       received_packets |-> received_packets,
       frame_buf |-> frame_buf]

\* recv() into recv_buf: a datagram longer than the buffer is cut to it
Recv(d) == SubSeq(d, 1, Min(Len(d), HEADER_SIZE + CHUNK_SIZE))

\* mutant: the two bytes are taken in host (little-endian) order
Ntohs_HostOrder(b0, b1) == b1 * 256 + b0

\* memcpy of two wire bytes into a uint16_t followed by ntohs
Ntohs(b0, b1) == b0 * 256 + b1

ParseHeader(buf) == [frame_id |-> Ntohs(buf[1], buf[2]),
                     packet_index |-> Ntohs(buf[3], buf[4]),
                     total_packets |-> Ntohs(buf[5], buf[6])]

\* mutant: only a larger frame_id starts a new frame
IsNewFrame_OnlyGreater(hdr_frame_id, cur_frame_id) == hdr_frame_id > cur_frame_id

IsNewFrame(hdr_frame_id, cur_frame_id) == hdr_frame_id # cur_frame_id

\* mutant: the std::fill of frame_buf is missing
NewFrame_NoFill(st, hdr) ==
  [current_frame_id |-> hdr.frame_id,
   expected_packets |-> hdr.total_packets,
   got_packet |-> [i \in 1..hdr.total_packets |-> FALSE],
   received_packets |-> 0,
   frame_buf |-> st.frame_buf]

\* mutant: received_packets is not reset
NewFrame_KeepCount(st, hdr) ==
  [current_frame_id |-> hdr.frame_id,
   expected_packets |-> hdr.total_packets,
   got_packet |-> [i \in 1..hdr.total_packets |-> FALSE],
   received_packets |-> st.received_packets,
   frame_buf |-> [k \in 1..FRAME_BYTES |-> 0]]

NewFrame(st, hdr) ==
  [current_frame_id |-> hdr.frame_id,
   expected_packets |-> hdr.total_packets,
   got_packet |-> [i \in 1..hdr.total_packets |-> FALSE],
   received_packets |-> 0,
   frame_buf |-> [k \in 1..FRAME_BYTES |-> 0]]

\* mutant: `>` for `>=`
IndexInRange_OffByOne(packet_index, expected) == ~(packet_index > expected)

IndexInRange(packet_index, expected) == ~(packet_index >= expected)

\* mutant: `>` for `>=`
OffsetInRange_OffByOne(offset) == ~(offset > FRAME_BYTES)

OffsetInRange(offset) == ~(offset >= FRAME_BYTES)

CopyLen(offset, payload_len) ==
  IF offset + payload_len > FRAME_BYTES THEN FRAME_BYTES - offset
  ELSE payload_len

\* memcpy(&dst[offset], &src[srcoff], len) on 0-based offsets
Memcpy(dst, offset, src, srcoff, len) ==
  [k \in 1..Len(dst) |->
     IF k > offset /\ k <= offset + len THEN src[srcoff + (k - offset)]
     ELSE dst[k]]

\* mutant: the count is incremented for every accepted chunk
MarkGot_AlwaysCount(st, packet_index) ==
  [st EXCEPT !.got_packet[packet_index + 1] = TRUE,
             !.received_packets = @ + 1]

\* mutant: the flag is tested but never set
MarkGot_NoSet(st, packet_index) ==
  IF ~st.got_packet[packet_index + 1]
  THEN [st EXCEPT !.received_packets = @ + 1]
  ELSE st

MarkGot(st, packet_index) ==
  IF ~st.got_packet[packet_index + 1]
  THEN [st EXCEPT !.got_packet[packet_index + 1] = TRUE,
                  !.received_packets = @ + 1]
  ELSE st

IsComplete(st) == st.received_packets = st.expected_packets

\* One iteration of the receive loop on the received bytes buf, up to the
\* completion test: the new reassembly state, and whether the iteration
\* reached the completion test (no `continue` was taken).
Offer(st, buf) ==
  LET n == Len(buf) IN
  IF n < HEADER_SIZE THEN [st |-> st, reached |-> FALSE]
  ELSE
    LET hdr == ParseHeader(buf)
        payload_len == n - HEADER_SIZE
    IN
    IF payload_len > CHUNK_SIZE THEN [st |-> st, reached |-> FALSE]
    ELSE
      LET s1 == IF IsNewFrame(hdr.frame_id, st.current_frame_id)
                THEN NewFrame(st, hdr) ELSE st
      IN
      IF ~IndexInRange(hdr.packet_index, s1.expected_packets)
      THEN [st |-> s1, reached |-> FALSE]
      ELSE
        LET offset == hdr.packet_index * CHUNK_SIZE IN
        IF ~OffsetInRange(offset) THEN [st |-> s1, reached |-> FALSE]
        ELSE
          LET copy_len == CopyLen(offset, payload_len)
              s2 == [s1 EXCEPT !.frame_buf =
                       Memcpy(@, offset, buf, HEADER_SIZE, copy_len)]
          IN [st |-> MarkGot(s2, hdr.packet_index), reached |-> TRUE]

\* ---- the datagrams the network may deliver ----
U16(v) == <<v \div 256, v % 256>>

Dgram(frame_id, packet_index, total_packets, payload) ==
  U16(frame_id) \o U16(packet_index) \o U16(total_packets) \o payload

NumChunks == FRAME_BYTES \div CHUNK_SIZE

\* byte k (0-based) of the test frame with content tag c; never 0
FrameData(c) == [k \in 1..FRAME_BYTES |-> 16 * c + k]

ChunkOf(c, i) == SubSeq(FrameData(c), i * CHUNK_SIZE + 1, (i + 1) * CHUNK_SIZE)

WellFormed(frame_id, c) ==
  {Dgram(frame_id, i, NumChunks, ChunkOf(c, i)) : i \in 0..(NumChunks - 1)}

\* frames a sender transmits: <<frame_id, content tag>>
SentFrames == {<<0, 1>>, <<1, 1>>, <<2, 2>>, <<1, 3>>}

Malformed ==
  { <<>>,                                        \* empty datagram / recv error
    <<0, 1, 0>>,                                 \* shorter than the header
    Dgram(1, NumChunks, NumChunks, ChunkOf(4, 0)),     \* index = total
    Dgram(2, 0, 0, ChunkOf(4, 0)),                     \* total_packets = 0
    Dgram(2, NumChunks, NumChunks + 1, ChunkOf(4, 0)), \* offset = FRAME_BYTES
    Dgram(2, 0, 1, ChunkOf(5, 0)),                     \* one-chunk frame
    Dgram(65535, 0, 1, ChunkOf(7, 0)),                 \* the same, last id
    Dgram(1, 1, NumChunks, <<90, 91>>),                \* short payload
    Dgram(1, 2, NumChunks, <<>>),                      \* empty payload
    Dgram(1, NumChunks - 1, NumChunks,                 \* longer than recv_buf
          ChunkOf(6, NumChunks - 1) \o <<99>>) }

Datagrams == UNION {WellFormed(f[1], f[2]) : f \in SentFrames} \cup Malformed

UdpReceive(d) ==
  /\ prog = "udp" /\ pc = "recv" /\ nrecv < MaxDatagrams
  /\ LET buf == Recv(d)
         r == Offer(RS, buf)
         parsed == Len(buf) >= HEADER_SIZE
         hdr == ParseHeader(buf)
         changed == parsed /\ hdr.frame_id # current_frame_id
     IN /\ current_frame_id' = r.st.current_frame_id
        /\ expected_packets' = r.st.expected_packets
        /\ got_packet' = r.st.got_packet
        /\ received_packets' = r.st.received_packets
        /\ frame_buf' = r.st.frame_buf
        /\ IF r.reached /\ IsComplete(r.st)
           THEN pc' = "render" /\ rp' = 0
           ELSE pc' = LoopTest(interrupt_received, "recv") /\ rp' = rp
        /\ offered' = IF ~parsed THEN offered
                      ELSE IF changed THEN SetToBag({buf})
                      ELSE offered (+) SetToBag({buf})
        /\ abandoned' = IF /\ changed
                           /\ hdr.frame_id = (current_frame_id + 1) % 65536
                           /\ received_packets < expected_packets
                        THEN abandoned \cup {current_frame_id}
                        ELSE abandoned
        /\ completed' = IF /\ r.reached /\ IsComplete(r.st)
                           /\ \/ changed
                              \/ r.st.received_packets > received_packets
                        THEN Append(completed,
                                    <<r.st.current_frame_id, r.st.frame_buf>>)
                        ELSE completed
  /\ nrecv' = nrecv + 1
  /\ UNCHANGED <<prog, editorVars, procVars, driverVars, interrupt_received, offscreen, front, canvas,
                 streamVars, t>>

\* mutant: the outer loop stops one row early (`y < HEIGHT - 1`)
RenderDone_RowShort(cursor) == ~(cursor < WIDTH * (HEIGHT - 1))

\* the nested loops `y < HEIGHT`, `x < WIDTH` have run to their end
RenderDone(cursor) == ~(cursor < WIDTH * HEIGHT)

\* one iteration of the nested render loops (x = rp % WIDTH, y = rp / WIDTH)
UdpRenderPixel ==
  /\ prog = "udp" /\ pc = "render" /\ ~RenderDone(rp)
  /\ LET x == rp % WIDTH
         y == rp \div WIDTH
         r == frame_buf[3 * rp + 1]
         g == frame_buf[3 * rp + 2]
         b == frame_buf[3 * rp + 3]
     IN canvas' = [canvas EXCEPT ![RenderTarget(offscreen, front)] = SetPixel(@, x, y, r, g, b)]
  /\ rp' = rp + 1
  /\ UNCHANGED <<prog, editorVars, procVars, driverVars, pc, interrupt_received, offscreen, front, udpVars,
                 streamVars, t>>

\* mutant: the handle SwapOnVSync returns is not stored
UdpSwap_DropReturn ==
  /\ prog = "udp" /\ pc = "render" /\ RenderDone(rp)
  /\ scan = 0
  /\ LET s == SwapOnVSync(front, offscreen)
     IN front' = s.front /\ offscreen' = offscreen
  /\ pc' = LoopTest(interrupt_received, "recv")
  /\ UNCHANGED <<prog, editorVars, procVars, driverVars, interrupt_received, canvas, rp, udpVars, streamVars, t>>

UdpSwap ==
  /\ prog = "udp" /\ pc = "render" /\ RenderDone(rp)
  /\ scan = 0
  /\ LET s == SwapOnVSync(front, offscreen)
     IN front' = s.front /\ offscreen' = s.ret
  /\ pc' = LoopTest(interrupt_received, "recv")
  /\ UNCHANGED <<prog, editorVars, procVars, driverVars, interrupt_received, canvas, rp, udpVars, streamVars, t>>

UdpShutdown ==
  /\ prog = "udp" /\ pc = "exit"
  /\ canvas' = Clear(canvas, front)
  /\ pc' = "done"
  /\ exit_status' = 0
  /\ UNCHANGED <<diag, interrupt_received, offscreen, front, rp, udpVars,
                 streamVars, t, prog, editorVars, driverVars>>

\* ------------------------------------------------------------------------
\* Stream daemon: src/unnamed/part_002 (matrix_daemon)
\* ------------------------------------------------------------------------
\* byte j (0-based) of the stream sent by the peer of connection c; never 0
StreamByte(c, j) == 100 * (c - 1) + j + 1

StreamOf(c, len) == [j \in 1..len |-> StreamByte(c, j - 1)]

\* mutant: a peer that connects ends the service of the current client
PeerConnect_Preempts ==
  /\ prog = "stream" /\ pc \notin (AllSetupStages \cup {"failed", "done"})
  /\ pending < LISTEN_BACKLOG /\ nconn + pending < MaxConns
  /\ pending' = pending + 1
  /\ open_clients' = {}
  /\ client' = 0
  /\ total' = 0
  /\ pc' = IF pc \in {"read", "render"} THEN "accept" ELSE pc
  /\ UNCHANGED <<prog, editorVars, procVars, driverVars, interrupt_received, dispVars, udpVars, buffer, sent,
                 pos, delivered, nconn, read_while_pending, t>>

\* a peer's connect() completes while the listening socket is open: the
\* connection waits in the listen queue, whatever the server is doing
PeerConnect ==
  /\ prog = "stream" /\ pc \notin (AllSetupStages \cup {"failed", "done"})
  /\ pending < LISTEN_BACKLOG /\ nconn + pending < MaxConns
  /\ pending' = pending + 1
  /\ UNCHANGED <<prog, editorVars, procVars, driverVars, pc, interrupt_received, dispVars, udpVars, client,
                 buffer, total, sent, pos, delivered, nconn, open_clients,
                 read_while_pending, t>>

OpenClient(fds, fd) == fds \cup {fd}

\* mutant: close(client) is missing
CloseClient_Leak(fds, fd) == fds

CloseClient(fds, fd) == fds \ {fd}

\* accept() returns the first waiting connection; the inner loop's first
\* test follows
StreamAccept(len) ==
  /\ prog = "stream" /\ pc = "accept" /\ nconn < MaxConns
  /\ pending > 0
  /\ pending' = pending - 1
  /\ nconn' = nconn + 1
  /\ client' = nconn + 1
  /\ open_clients' = OpenClient(open_clients, nconn + 1)
  /\ sent' = StreamOf(nconn + 1, len)
  /\ pos' = 0
  /\ delivered' = <<>>
  /\ total' = 0
  /\ pc' = LoopTest(interrupt_received, "read")
  /\ UNCHANGED <<prog, editorVars, procVars, driverVars, interrupt_received, dispVars, udpVars, buffer,
                 read_while_pending, t>>

\* mutant: recv writes at the start of the buffer (`buf` for `buf + total`)
RecvInto_AtStart(buf, cursor, src, srcpos, got) ==
  [k \in 1..Len(buf) |-> IF k <= got THEN src[srcpos + k] ELSE buf[k]]

\* accept() returns -1 for a reason of its own (e.g. the waiting connection
\* was aborted): break if the flag is set, else perror and continue to the
\* loop test
StreamAcceptFail ==
  /\ prog = "stream" /\ pc = "accept"
  /\ pc' = LoopTest(interrupt_received, "accept")
  /\ UNCHANGED <<prog, editorVars, procVars, driverVars, interrupt_received, dispVars, udpVars, streamVars, t>>

\* recv(fd, buf + total, n - total, 0) returning got > 0 bytes
RecvInto(buf, cursor, src, srcpos, got) ==
  [k \in 1..Len(buf) |->
     IF k > cursor /\ k <= cursor + got THEN src[srcpos + (k - cursor)]
     ELSE buf[k]]

\* mutant: `total = got` for `total += got`
AdvanceTotal_Assign(cursor, got) == got

AdvanceTotal(cursor, got) == cursor + got

\* one pass of ReadNBytes' loop with data available; ReadNBytes returns true
\* when total reaches n, and the frame goes to the render loop
StreamRecv(got) ==
  /\ prog = "stream" /\ pc = "read"
  /\ got >= 1 /\ got <= Min(expected_size - total, Len(sent) - pos)
  /\ buffer' = RecvInto(buffer, total, sent, pos, got)
  /\ total' = AdvanceTotal(total, got)
  /\ pos' = pos + got
  /\ IF ~(total' < expected_size)
     THEN pc' = "render" /\ rp' = 0 /\ delivered' = Append(delivered, buffer')
     ELSE pc' = "read" /\ rp' = rp /\ delivered' = delivered
  /\ read_while_pending' = (read_while_pending \/ pending > 0)
  /\ UNCHANGED <<prog, editorVars, procVars, driverVars, interrupt_received, offscreen, front, canvas, udpVars,
                 client, sent, nconn, pending, open_clients, t>>

\* recv returns 0 (peer closed) or -1: ReadNBytes returns false, the client
\* is closed and the accept loop's test follows
StreamDisconnect ==
  /\ prog = "stream" /\ pc = "read"
  /\ pos = Len(sent)
  /\ open_clients' = CloseClient(open_clients, client)
  /\ client' = 0
  /\ pc' = LoopTest(interrupt_received, "accept")
  /\ UNCHANGED <<prog, editorVars, procVars, driverVars, interrupt_received, dispVars, udpVars, buffer, total,
                 sent, pos, delivered, nconn, pending, read_while_pending, t>>

\* the nested loops `y_buf < LOGICAL_HEIGHT`, `X < LOGICAL_WIDTH` have ended
StreamRenderDone(cursor) == ~(cursor < LOGICAL_WIDTH * LOGICAL_HEIGHT)

\* mutant: the row is not flipped
FlipY_None(y_buf) == y_buf

\* `int Y = LOGICAL_HEIGHT - 1 - y_buf;  // flip vertically`
FlipY(y_buf) == LOGICAL_HEIGHT - 1 - y_buf

\* one iteration of the nested render loops (X = rp % W, y_buf = rp / W)
StreamRenderPixel ==
  /\ prog = "stream" /\ pc = "render" /\ ~StreamRenderDone(rp)
  /\ LET y_buf == rp \div LOGICAL_WIDTH
         X == rp % LOGICAL_WIDTH
         Y == FlipY(y_buf)
         r == buffer[3 * rp + 1]
         g == buffer[3 * rp + 2]
         b == buffer[3 * rp + 3]
     IN canvas' = [canvas EXCEPT ![RenderTarget(offscreen, front)] = SetPixel(@, X, Y, r, g, b)]
  /\ rp' = rp + 1
  /\ UNCHANGED <<prog, editorVars, procVars, driverVars, pc, interrupt_received, offscreen, front, udpVars,
                 streamVars, t>>

\* SwapOnVSync, then the inner loop's test; when it fails the outer test
\* fails too (the client socket stays open)
StreamSwap ==
  /\ prog = "stream" /\ pc = "render" /\ StreamRenderDone(rp)
  /\ scan = 0
  /\ LET s == SwapOnVSync(front, offscreen)
     IN front' = s.front /\ offscreen' = s.ret
  /\ pc' = LoopTest(interrupt_received, "read")
  /\ total' = 0
  /\ UNCHANGED <<prog, editorVars, procVars, driverVars, interrupt_received, canvas, rp, udpVars, client, buffer,
                 sent, pos, delivered, nconn, pending, open_clients,
                 read_while_pending, t>>

StreamShutdown ==
  /\ prog = "stream" /\ pc = "exit"
  /\ canvas' = Clear(canvas, front)
  /\ pc' = "done"
  /\ exit_status' = 0
  /\ UNCHANGED <<diag, interrupt_received, offscreen, front, rp, udpVars,
                 streamVars, t, prog, editorVars, driverVars>>

\* ------------------------------------------------------------------------
\* Local pattern source: src/src/local_shader.cc
\* ------------------------------------------------------------------------
\* rings_shader / plasma_shader: a colour computed from (x, y, t).  The
\* floating-point pattern is not reproduced; only that the colour is a
\* function of the pixel and the frame time.
Shader(x, y, tick) == <<(40 * tick + x) % 256, (40 * tick + y) % 256, tick % 256>>

LocalRenderPixel ==
  /\ prog = "local" /\ pc = "render" /\ rp < WIDTH * HEIGHT
  /\ LET x == rp % WIDTH
         y == rp \div WIDTH
         c == Shader(x, y, t)
     IN canvas' = [canvas EXCEPT ![RenderTarget(offscreen, front)] = SetPixel(@, x, y, c[1], c[2], c[3])]
  /\ rp' = rp + 1
  /\ UNCHANGED <<prog, editorVars, procVars, driverVars, pc, interrupt_received, offscreen, front, udpVars,
                 streamVars, t>>

\* SwapOnVSync, usleep, the loop test and the next frame's time (the clock
\* reading saturates at MaxTicks)
\* mutant: the loop test after the swap is skipped
LocalSwap_NoLoopTest ==
  /\ prog = "local" /\ pc = "render" /\ rp = WIDTH * HEIGHT
  /\ scan = 0
  /\ LET s == SwapOnVSync(front, offscreen)
     IN front' = s.front /\ offscreen' = s.ret
  /\ pc' = "render" /\ t' = Min(t + 1, MaxTicks) /\ rp' = 0
  /\ UNCHANGED <<prog, editorVars, procVars, driverVars, interrupt_received, canvas, udpVars, streamVars>>

LocalSwap ==
  /\ prog = "local" /\ pc = "render" /\ rp = WIDTH * HEIGHT
  /\ scan = 0
  /\ LET s == SwapOnVSync(front, offscreen)
     IN front' = s.front /\ offscreen' = s.ret
  /\ IF interrupt_received
     THEN pc' = "exit" /\ t' = t /\ rp' = rp
     ELSE pc' = "render" /\ t' = Min(t + 1, MaxTicks) /\ rp' = 0
  /\ UNCHANGED <<prog, editorVars, procVars, driverVars, interrupt_received, canvas, udpVars, streamVars>>

LocalShutdown ==
  /\ prog = "local" /\ pc = "exit"
  /\ canvas' = Clear(canvas, front)
  /\ pc' = "done"
  /\ exit_status' = 0
  /\ UNCHANGED <<diag, interrupt_received, offscreen, front, rp, udpVars,
                 streamVars, t, prog, editorVars, driverVars>>

\* ------------------------------------------------------------------------
\* Signals
\* ------------------------------------------------------------------------
\* The handler is installed with signal(), which on the target (Linux,
\* glibc, g++) has BSD semantics: a recv or accept that was blocked when the
\* signal arrived is restarted after the handler returns.  The handler
\* therefore changes the flag and nothing else; a producer blocked in
\* "recv", "read" or "accept" stays there until the call returns for a
\* reason of its own.
InterruptHandler ==
  /\ pc \notin {"setup_matrix", "failed", "done"} /\ ~interrupt_received
  /\ interrupt_received' = TRUE
  /\ UNCHANGED <<prog, editorVars, procVars, driverVars, pc, dispVars, udpVars, streamVars, t>>

\* ------------------------------------------------------------------------
\* ------------------------------------------------------------------------
\* Browser editor (WebGL preview)
\* ------------------------------------------------------------------------
\* the editor's state as one value
ES == [gl |-> gl,
       vertexShader |-> vertexShader,
       errorLog |-> errorLog,
       currentProgram |-> currentProgram,
       uniformLocations |-> uniformLocations,
       gl_live |-> gl_live,
       gl_created |-> gl_created]

\* each function returns when the element is missing
clearError(el) ==
  IF ~el.present THEN el
  ELSE [el EXCEPT !.textContent = "", !.error = FALSE]

logError(el, msg) ==
  IF ~el.present THEN el
  ELSE [el EXCEPT !.textContent = msg, !.error = TRUE]

logInfo(el, msg) ==
  IF ~el.present THEN el
  ELSE [el EXCEPT !.textContent = msg, !.error = FALSE]

\* compileShader(type, src): creates a shader object; if the source does
\* not compile the object is deleted, the error is logged and null (0) is
\* returned.  compiles is the COMPILE_STATUS the source gets.
compileShader(st, typeName, compiles) ==
  LET shader == st.gl_created + 1 IN
  IF ~compiles
  THEN [st |-> [st EXCEPT !.gl_created = shader,
                          !.errorLog = logError(@, typeName \o " shader compile error")],
        shader |-> 0]
  ELSE [st |-> [st EXCEPT !.gl_created = shader,
                          !.gl_live = @ \cup {shader}],
        shader |-> shader]

\* mutant: the previous program is deleted and the new one installed before
\* the link status is read
compileAndUseShader_InstallFirst(st, compiles, links) ==
  LET s0 == [st EXCEPT !.errorLog = clearError(@)] IN
  IF ~s0.gl \/ s0.vertexShader = 0
  THEN [s0 EXCEPT !.errorLog = logError(@, "WebGL not initialized.")]
  ELSE
    LET c == compileShader(s0, "FRAGMENT", compiles) IN
    IF c.shader = 0 THEN c.st
    ELSE
      LET program == c.st.gl_created + 1
          s1 == [c.st EXCEPT !.gl_created = program,
                             !.gl_live = (@ \ {c.st.currentProgram}) \cup {program},
                             !.currentProgram = program,
                             !.uniformLocations = program]
      IN
      IF ~links
      THEN [s1 EXCEPT !.gl_live = @ \ {c.shader, program},
                      !.errorLog = logError(@, "Program link error")]
      ELSE [s1 EXCEPT !.errorLog =
                        logInfo(@, "Shader compiled and linked successfully.")]

\* compileAndUseShader(userSource); compiles and links are the
\* COMPILE_STATUS and LINK_STATUS the source gets
compileAndUseShader(st, compiles, links) ==
  LET s0 == [st EXCEPT !.errorLog = clearError(@)] IN
  IF ~s0.gl \/ s0.vertexShader = 0
  THEN [s0 EXCEPT !.errorLog = logError(@, "WebGL not initialized.")]
  ELSE
    LET c == compileShader(s0, "FRAGMENT", compiles) IN
    IF c.shader = 0 THEN c.st
    ELSE
      LET program == c.st.gl_created + 1
          s1 == [c.st EXCEPT !.gl_created = program,
                             !.gl_live = @ \cup {program}]
      IN
      IF ~links
      THEN [s1 EXCEPT !.gl_live = @ \ {c.shader, program},
                      !.errorLog = logError(@, "Program link error")]
      ELSE [s1 EXCEPT !.gl_live = IF s1.currentProgram # 0
                                  THEN @ \ {s1.currentProgram} ELSE @,
                      !.currentProgram = program,
                      !.uniformLocations = program,
                      !.errorLog =
                        logInfo(@, "Shader compiled and linked successfully.")]

\* initGL(): the context, then the vertex shader
initGL(st, gotContext, vsCompiles) ==
  IF ~gotContext
  THEN [st EXCEPT !.errorLog =
                    logError(@, "WebGL is not supported by this browser.")]
  ELSE LET c == compileShader([st EXCEPT !.gl = TRUE], "VERTEX", vsCompiles)
       IN [c.st EXCEPT !.vertexShader = c.shader]

\* the editor's variables take the values of st
EditorBecomes(st) ==
  /\ gl' = st.gl
  /\ vertexShader' = st.vertexShader
  /\ errorLog' = st.errorLog
  /\ currentProgram' = st.currentProgram
  /\ uniformLocations' = st.uniformLocations
  /\ gl_live' = st.gl_live
  /\ gl_created' = st.gl_created

\* the program variables of the three producers, which the editor leaves
\* alone
producerVars == <<procVars, interrupt_received, dispVars, driverVars, udpVars,
                  streamVars, t>>

\* the DOMContentLoaded handler: the elements are looked up, initGL runs
\* and the editor's initial source is compiled
DomReady(hasLog, gotContext, vsCompiles, compiles, links) ==
  /\ prog = "editor" /\ pc = "load"
  /\ LET s0 == [ES EXCEPT !.errorLog.present = hasLog]
         s1 == initGL(s0, gotContext, vsCompiles)
     IN /\ EditorBecomes(compileAndUseShader(s1, compiles, links))
        /\ last_call' = [made |-> TRUE, compiles |-> compiles,
                         links |-> links, before |-> s1]
  /\ ncompile' = ncompile + 1
  /\ pc' = "run"
  /\ UNCHANGED <<prog, producerVars, used_program>>

\* Ctrl-S, Cmd-S or a change of the preset: the editor's text is compiled.
\* The handler then posts the text to the Pi (sendShaderToPi), whatever the
\* compilation gave; the request changes none of the page's GL state.
EditorCompile(compiles, links) ==
  /\ prog = "editor" /\ pc = "run" /\ ncompile < MaxCompiles
  /\ EditorBecomes(compileAndUseShader(ES, compiles, links))
  /\ last_call' = [made |-> TRUE, compiles |-> compiles, links |-> links,
                   before |-> ES]
  /\ ncompile' = ncompile + 1
  /\ UNCHANGED <<prog, pc, producerVars, used_program>>

\* one animation frame: draws with currentProgram if there is one
renderLoop ==
  /\ prog = "editor" /\ pc = "run"
  /\ used_program' = IF gl /\ currentProgram # 0 THEN currentProgram
                     ELSE used_program
  /\ UNCHANGED <<prog, pc, producerVars, gl, vertexShader, errorLog,
                 currentProgram, uniformLocations, gl_live, gl_created,
                 ncompile, last_call>>

\* the values every variable other than prog and pc has when a program
\* starts
StartState ==
  /\ exit_status = -1
  /\ diag = ""
  /\ interrupt_received = FALSE
  /\ offscreen = "c1" /\ front = "c0"
  /\ canvas = [h \in Handles |-> BlankCanvas]
  /\ rp = 0
  /\ scan = 0
  /\ scanout = <<>>
  /\ frame_buf = [k \in 1..FRAME_BYTES |-> 0]
  /\ current_frame_id = 0
  /\ expected_packets = 0
  /\ got_packet = <<>>
  /\ received_packets = 0
  /\ nrecv = 0
  /\ offered = EmptyBag
  /\ abandoned = {}
  /\ completed = <<>>
  /\ client = 0
  /\ buffer = [k \in 1..expected_size |-> 0]
  /\ total = 0
  /\ sent = <<>>
  /\ pos = 0
  /\ delivered = <<>>
  /\ nconn = 0
  /\ pending = 0
  /\ open_clients = {}
  /\ read_while_pending = FALSE
  /\ t = 0
  /\ gl = FALSE
  /\ vertexShader = 0
  /\ errorLog = [present |-> FALSE, textContent |-> "", error |-> FALSE]
  /\ currentProgram = 0
  /\ uniformLocations = 0
  /\ gl_live = {}
  /\ gl_created = 0
  /\ used_program = 0
  /\ ncompile = 0
  /\ last_call = [made |-> FALSE]

Init ==
  /\ prog \in {"udp", "stream", "local"}
  /\ pc = "setup_matrix"
  /\ StartState

Next ==
  \/ DriverScanRow
  \/ \E ok \in BOOLEAN : SetupStep(ok)
  \/ \E d \in Datagrams : UdpReceive(d)
  \/ UdpRenderPixel
  \/ UdpSwap
  \/ UdpShutdown
  \/ PeerConnect
  \/ \E len \in 0..(MaxStreamFrames * expected_size) : StreamAccept(len)
  \/ StreamAcceptFail
  \/ \E got \in 1..expected_size : StreamRecv(got)
  \/ StreamDisconnect
  \/ StreamRenderPixel
  \/ StreamSwap
  \/ StreamShutdown
  \/ LocalRenderPixel
  \/ LocalSwap
  \/ LocalShutdown
  \/ InterruptHandler

Spec == Init /\ [][Next]_vars

\* The steps a producer takes on its own (render loop, swap, shutdown
\* sequence) are taken when they are possible: the process is scheduled.
\* The driver keeps refreshing and serves a waiting SwapOnVSync at a refresh
\* boundary (strong fairness: the boundary comes round again and again).
\* accept returns when a connection is waiting in the listen queue.  Nothing
\* else is assumed about the environment: datagrams, peers, stream bytes and
\* signals may or may not arrive.
FairSpec ==
  /\ Spec
  /\ WF_vars(\E len \in 0..(MaxStreamFrames * expected_size) : StreamAccept(len))
  /\ WF_vars(DriverScanRow)
  /\ WF_vars(UdpRenderPixel) /\ SF_vars(UdpSwap) /\ WF_vars(UdpShutdown)
  /\ WF_vars(StreamRenderPixel) /\ SF_vars(StreamSwap)
  /\ WF_vars(StreamShutdown)
  /\ WF_vars(LocalRenderPixel) /\ SF_vars(LocalSwap) /\ WF_vars(LocalShutdown)

\* The local pattern source on its own: the runs of FairSpec in which the
\* program started is local_shader.  It makes no blocking call, so every
\* step of its own is taken eventually; the swap waits for the end of a
\* refresh pass, which comes again and again.
LocalInit == Init /\ prog = "local"

LocalNext ==
  \/ DriverScanRow
  \/ \E ok \in BOOLEAN : SetupStep(ok)
  \/ LocalRenderPixel
  \/ LocalSwap
  \/ LocalShutdown
  \/ InterruptHandler

LocalFairSpec ==
  /\ LocalInit /\ [][LocalNext]_vars
  /\ WF_vars(DriverScanRow)
  /\ WF_vars(LocalRenderPixel) /\ SF_vars(LocalSwap) /\ WF_vars(LocalShutdown)

\* The browser editor on its own: a page whose handlers run one at a time.
EditorInit == prog = "editor" /\ pc = "load" /\ StartState

EditorNext ==
  \/ \E hasLog, gotContext, vsCompiles, compiles, links \in BOOLEAN :
       DomReady(hasLog, gotContext, vsCompiles, compiles, links)
  \/ \E compiles, links \in BOOLEAN : EditorCompile(compiles, links)
  \/ renderLoop

EditorSpec == EditorInit /\ [][EditorNext]_vars

\* ========================================================================
\* Properties
\* ========================================================================
HdrOf(d) == ParseHeader(d)
PayloadLenOf(d) == Len(d) - HEADER_SIZE
OffsetOf(d) == HdrOf(d).packet_index * CHUNK_SIZE
OfferedSet == BagToSet(offered)
Zeros == [k \in 1..FRAME_BYTES |-> 0]

\* canvas h shows the frame bytes fb in the display's row order
ShowsFrame(h, fb) ==
  \A i \in 0..(WIDTH * HEIGHT - 1) :
    canvas[h][i] = <<fb[3 * i + 1], fb[3 * i + 2], fb[3 * i + 3]>>

\* every chunk index below the expected count was received, with a byte
\* range inside the frame, for the current id
AllIndicesOffered ==
  \A i \in 0..(expected_packets - 1) :
    \E d \in OfferedSet :
      /\ HdrOf(d).packet_index = i
      /\ OffsetOf(d) + PayloadLenOf(d) <= FRAME_BYTES

\* ---- C1 -----------------------------------------------------------------
\* C1: whenever the datagrams received for the current frame_id are exactly
\* the chunks of one complete well-formed frame (in any order, any of them
\* repeated), the reassembler has delivered that frame: frame_buf holds the
\* frame's bytes and, once rendered and swapped, the display shows them.
C1_CompleteFrameDelivered ==
  prog = "udp" =>
    \A f \in SentFrames :
      (current_frame_id = f[1] /\ OfferedSet = WellFormed(f[1], f[2])) =>
         /\ frame_buf = FrameData(f[2])
         /\ pc = "recv" => ShowsFrame(front, FrameData(f[2]))

\* The same statement for a frame whose id differed from current_frame_id
\* when its first chunk arrived (any id but the initial current_frame_id 0).
CompleteFrameDeliveredAfterIdChange ==
  prog = "udp" =>
    \A f \in SentFrames :
      (f[1] # 0 /\ current_frame_id = f[1] /\ OfferedSet = WellFormed(f[1], f[2])) =>
         /\ frame_buf = FrameData(f[2])
         /\ pc = "recv" => ShowsFrame(front, FrameData(f[2]))

\* ---- C2 -----------------------------------------------------------------
\* C2: the receiver renders into the offscreen canvas or swaps it to the
\* display only when every chunk index 0..expected_packets-1 has been
\* received with the current frame_id since that id became current.
C2_SwapOnlyWhenAllChunksReceived ==
  [][(prog = "udp" /\ pc # "exit" /\ (front' # front \/ canvas' # canvas))
       => AllIndicesOffered]_vars

C2_Witness ==
  /\ prog = "udp" /\ front = "c1" /\ pc = "recv"
  /\ expected_packets = NumChunks
  /\ BagCardinality(offered) > NumChunks

\* ---- C3 -----------------------------------------------------------------
\* C3 (as claimed): once frame N was superseded while incomplete, a chunk
\* carrying frame_id N is ignored (it leaves the reassembly state as it is)
\* and frame N is never rendered.
C3_SupersededChunksIgnored ==
  prog = "udp" =>
    /\ pc = "recv" =>
         \A d \in Datagrams :
           (Len(Recv(d)) >= HEADER_SIZE /\ HdrOf(Recv(d)).frame_id \in abandoned
              /\ HdrOf(Recv(d)).frame_id # current_frame_id)
             => Offer(RS, Recv(d)).st = RS
    /\ pc = "render" => current_frame_id \notin abandoned

\* C3 (amended): a chunk whose frame_id differs from the current one,
\* whether the id is new or that of a frame superseded earlier, discards the
\* accumulated state entirely: after the step the expected count is that
\* chunk's total_packets, no index other than that chunk's is marked
\* received, the count is the number of marked indices (at most 1), and
\* every non-zero byte of frame_buf is a payload byte of that chunk.
C3_IdChangeDiscardsState ==
  [][(prog = "udp" /\ current_frame_id' # current_frame_id) =>
       LET d == CHOOSE x \in BagToSet(offered') : TRUE
           hdr == HdrOf(d)
       IN /\ BagCardinality(offered') = 1
          /\ current_frame_id' = hdr.frame_id
          /\ expected_packets' = hdr.total_packets
          /\ Len(got_packet') = hdr.total_packets
          /\ \A i \in 1..Len(got_packet') :
               got_packet'[i] => i = hdr.packet_index + 1
          /\ received_packets' =
               Cardinality({i \in 1..Len(got_packet') : got_packet'[i]})
          /\ \A k \in 1..FRAME_BYTES :
               frame_buf'[k] # 0 =>
                 /\ k > OffsetOf(d) /\ k <= OffsetOf(d) + PayloadLenOf(d)
                 /\ frame_buf'[k] = d[HEADER_SIZE + (k - OffsetOf(d))]
     ]_vars

\* frame N was superseded while incomplete and a later chunk of N has
\* restarted it
C3_Witness ==
  /\ prog = "udp" /\ current_frame_id \in abandoned
  /\ received_packets = 1 /\ expected_packets = NumChunks

\* ---- C4 -----------------------------------------------------------------
\* C4: a chunk whose index is >= the expected chunk count (that of its own
\* total_packets when it starts a new frame), or whose byte range
\* offset + length ends past FRAME_BYTES, is dropped: the iteration ends
\* before the copy, no payload byte reaches frame_buf, nothing is marked or
\* counted, and the loop goes on to the next datagram.
C4_OutOfRangeChunkDropped ==
  (prog = "udp" /\ pc = "recv") =>
    \A d \in Datagrams :
      LET buf == Recv(d) IN
      Len(buf) >= HEADER_SIZE =>
        LET hdr == HdrOf(buf)
            isnew == hdr.frame_id # current_frame_id
            expected == IF isnew THEN hdr.total_packets ELSE expected_packets
            r == Offer(RS, buf)
        IN (hdr.packet_index >= expected
              \/ OffsetOf(buf) + PayloadLenOf(buf) > FRAME_BYTES) =>
             /\ ~r.reached
             /\ r.st.frame_buf = (IF isnew THEN Zeros ELSE frame_buf)
             /\ r.st.received_packets = (IF isnew THEN 0 ELSE received_packets)
             /\ r.st.got_packet = (IF isnew THEN [i \in 1..hdr.total_packets |-> FALSE]
                                   ELSE got_packet)

\* a frame in progress for which an out-of-range chunk was offered and a
\* valid one was accepted
C4_Witness ==
  /\ prog = "udp" /\ pc = "recv" /\ received_packets = 1
  /\ \E d \in OfferedSet :
       OffsetOf(d) + PayloadLenOf(d) > FRAME_BYTES
  /\ \E d \in OfferedSet : HdrOf(d).packet_index = 0 /\ got_packet[1]

\* ---- C5 -----------------------------------------------------------------
FrameSlice(k) == SubSeq(sent, (k - 1) * expected_size + 1, k * expected_size)

\* C5: on one connection, however the reads split the stream, the frames
\* completed so far are exactly the first pos / frame_size slices of the
\* stream, in order and byte for byte: none is delivered before its last
\* byte was read, and a stream of frame_size * K bytes read to its end has
\* yielded exactly K frames.
C5_StreamFramesAreSlices ==
  prog = "stream" =>
    /\ Len(delivered) = pos \div expected_size
    /\ \A k \in 1..Len(delivered) : delivered[k] = FrameSlice(k)
    /\ (Len(sent) % expected_size = 0 /\ pos = Len(sent))
         => Len(delivered) = Len(sent) \div expected_size

C5_Witness ==
  /\ prog = "stream" /\ pc = "accept" /\ nconn = 1
  /\ Len(sent) = 2 * expected_size /\ pos = Len(sent)
  /\ Len(delivered) = 2 /\ delivered[1] # delivered[2]

\* ---- C7 -----------------------------------------------------------------
\* C7: the displayed canvas changes in one step that exchanges the two
\* handles and writes no pixel, and at that step every pixel of the canvas
\* that becomes front holds the pixel of the one completed frame (frame_buf
\* of the datagram receiver; the vertically flipped buffer of the stream
\* daemon), so nothing of an older frame is left in it.
C7_NoTornFrame ==
  [][front' # front =>
       /\ canvas' = canvas
       /\ front' = offscreen /\ offscreen' = front
       /\ prog = "udp" =>
            /\ received_packets = expected_packets
            /\ \A y \in 0..(HEIGHT - 1) : \A x \in 0..(WIDTH - 1) :
                 canvas[front'][y * WIDTH + x] =
                   << frame_buf[3 * (y * WIDTH + x) + 1],
                      frame_buf[3 * (y * WIDTH + x) + 2],
                      frame_buf[3 * (y * WIDTH + x) + 3] >>
       /\ prog = "stream" =>
            /\ total = expected_size
            /\ buffer = delivered[Len(delivered)]
            /\ \A y \in 0..(LOGICAL_HEIGHT - 1) : \A x \in 0..(LOGICAL_WIDTH - 1) :
                 canvas[front'][(LOGICAL_HEIGHT - 1 - y) * LOGICAL_WIDTH + x] =
                   << buffer[3 * (y * LOGICAL_WIDTH + x) + 1],
                      buffer[3 * (y * LOGICAL_WIDTH + x) + 2],
                      buffer[3 * (y * LOGICAL_WIDTH + x) + 3] >>
     ]_vars

\* three swaps happened: the canvas now shown was shown before, with an
\* older frame, and was written again
C7_Witness ==
  /\ prog = "udp" /\ pc = "recv" /\ nrecv = 3 /\ front = "c1"
  /\ canvas["c0"] # BlankCanvas /\ canvas["c1"] # BlankCanvas
  /\ canvas["c0"] # canvas["c1"]

\* ---- C8 -----------------------------------------------------------------
\* C8: every byte of frame_buf, and so of any frame rendered from it, is
\* zero or a payload byte, at its offset, of a chunk received with the
\* current frame_id since that id became current; and every index marked
\* received is the index of such a chunk.
C8_NoStaleBytes ==
  prog = "udp" =>
    /\ \A k \in 1..FRAME_BYTES :
         frame_buf[k] # 0 =>
           \E d \in OfferedSet :
             /\ k > OffsetOf(d) /\ k <= OffsetOf(d) + PayloadLenOf(d)
             /\ frame_buf[k] = d[HEADER_SIZE + (k - OffsetOf(d))]
    /\ \A i \in 1..Len(got_packet) :
         got_packet[i] => \E d \in OfferedSet : HdrOf(d).packet_index = i - 1

\* a frame is rendered after an incomplete frame was superseded, with a
\* part of the buffer left zero
C8_Witness ==
  /\ prog = "udp" /\ pc = "render" /\ abandoned # {}
  /\ frame_buf[1] # 0 /\ frame_buf[FRAME_BYTES] = 0

\* ---- C9 -----------------------------------------------------------------
\* C9: offering a chunk again is idempotent: for every datagram, the
\* reassembly state after offering it twice in a row equals the state after
\* offering it once; and a chunk already offered for the current frame whose
\* index is marked leaves the count and the marks unchanged.
C9_DuplicateIdempotent ==
  (prog = "udp" /\ pc = "recv") =>
    \A d \in Datagrams :
      LET buf == Recv(d)
          r1 == Offer(RS, buf)
          r2 == Offer(r1.st, buf)
      IN /\ r2.st = r1.st
         /\ r2.reached = r1.reached
         /\ (buf \in OfferedSet /\ r1.reached) =>
              /\ r1.st.received_packets = received_packets
              /\ r1.st.got_packet = got_packet

\* the same chunk was offered twice while its frame is incomplete
C9_Witness ==
  /\ prog = "udp" /\ pc = "recv"
  /\ received_packets = 1 /\ expected_packets = NumChunks
  /\ \E d \in OfferedSet :
       /\ CopiesIn(d, offered) = 2
       /\ got_packet[HdrOf(d).packet_index + 1]

\* ---- C6 -----------------------------------------------------------------
\* C6: in every reachable state of every producer the producer's offscreen
\* handle is not the canvas the display driver shows.
C6_FrontBackDistinct == offscreen # front

C6_Witness == prog = "local" /\ front = "c1" /\ offscreen = "c0" /\ t >= 1

\* ---- C10 ----------------------------------------------------------------
\* C10: received_packets is the number of true entries of got_packet,
\* got_packet has expected_packets entries and received_packets never
\* exceeds expected_packets.
C10_CountMatchesBitmap ==
  prog = "udp" =>
    /\ received_packets = Cardinality({i \in 1..Len(got_packet) : got_packet[i]})
    /\ Len(got_packet) = expected_packets
    /\ received_packets <= expected_packets

C10_Witness ==
  /\ prog = "udp" /\ expected_packets = NumChunks /\ received_packets = 2
  /\ BagCardinality(offered) = 3

\* ---- C11 ----------------------------------------------------------------
\* the frame of the current id has all its chunks; at the receive call that
\* means it was rendered and swapped already
CurrentFramePresented ==
  /\ prog = "udp" /\ pc = "recv"
  /\ expected_packets > 0 /\ received_packets = expected_packets

\* a complete frame waiting at the receive call is the one on display
CompleteFrameIsOnDisplay ==
  CurrentFramePresented => ShowsFrame(front, frame_buf)

\* C11: after the swap for a frame no further render or swap occurs until a
\* chunk of a different frame_id arrives: a datagram that leaves the
\* frame_id unchanged after the frame was presented starts no second
\* presentation.
C11_PresentedExactlyOnce ==
  [][(CurrentFramePresented /\ current_frame_id' = current_frame_id)
       => pc' # "render"]_vars

\* ---- C12 ----------------------------------------------------------------
\* a datagram below the header length leaves the reassembly state and the
\* buffer as they are and starts no render
ShortDatagramDropped ==
  (prog = "udp" /\ pc = "recv") =>
    \A d \in Datagrams :
      Len(d) < HEADER_SIZE =>
        /\ Offer(RS, Recv(d)).st = RS
        /\ ~Offer(RS, Recv(d)).reached

\* C12: a datagram shorter than the header, or one whose payload is longer
\* than CHUNK_SIZE, is dropped: receiving it changes neither the reassembly
\* state nor frame_buf.
C12_BadSizeDropped ==
  (prog = "udp" /\ pc = "recv") =>
    \A d \in Datagrams :
      (Len(d) < HEADER_SIZE \/ PayloadLenOf(d) > CHUNK_SIZE) =>
        /\ Offer(RS, Recv(d)).st = RS
        /\ ~Offer(RS, Recv(d)).reached

\* ---- C13 ----------------------------------------------------------------
\* a frame is being assembled: some but not all of its chunks are in
FrameInProgress ==
  /\ prog = "udp" /\ pc = "recv"
  /\ received_packets > 0 /\ received_packets < expected_packets

\* the iteration for datagram d ends in one of the `continue` statements
Dropped(d) == ~Offer(RS, Recv(d)).reached

\* a dropped datagram that is too short, or carries the current frame_id,
\* leaves the frame in progress as it is
DropOfCurrentIdLeavesState ==
  FrameInProgress =>
    \A d \in Datagrams :
      (Dropped(d) /\ (Len(d) < HEADER_SIZE
                        \/ HdrOf(d).frame_id = current_frame_id))
        => Offer(RS, Recv(d)).st = RS

\* C13: a datagram that is dropped (short header, index out of range,
\* offset out of range) while a frame is being assembled leaves that
\* frame's received set, received count, expected count and buffer
\* unchanged.
C13_DropLeavesFrameInProgress ==
  FrameInProgress =>
    \A d \in Datagrams : Dropped(d) => Offer(RS, Recv(d)).st = RS

\* ---- C14 ----------------------------------------------------------------
\* C14: the stream daemon has at most one accepted client socket open; it
\* waits in accept only when no client socket is open (the one served
\* before was closed); and while it reads or renders, the open socket is
\* the client being served.
C14_OneClientAtATime ==
  prog = "stream" =>
    /\ Cardinality(open_clients) <= 1
    /\ pc = "accept" => (client = 0 /\ open_clients = {})
    /\ pc \in {"read", "render"} => open_clients = {client}

\* the second connection is being served after the first was closed
C14_Witness ==
  /\ prog = "stream" /\ pc = "read" /\ nconn = 2
  /\ client = 2 /\ open_clients = {2}

\* ---- C15 ----------------------------------------------------------------
\* C15 (as claimed): a new connection replaces the prior one: once a second
\* peer has connected while a client is being served, no further frame is
\* taken from that client.
C15_NewConnectionReplaces ==
  [][(prog = "stream" /\ client # 0 /\ pending > 0)
       => Len(delivered') <= Len(delivered)]_vars

\* C15 (amended): one connection is serviced at a time and a new connection
\* never replaces it.  A peer that connects while a client is served only
\* joins the listen queue: that step changes nothing of the service.  The
\* served client changes only when its own read returns 0 or an error at
\* the end of its stream, and a waiting connection is taken from the queue
\* only by an accept made while no client is served.
C15_NewConnectionWaits ==
  [][prog = "stream" =>
       /\ pending' > pending =>
            UNCHANGED <<pc, client, open_clients, buffer, total, pos,
                        delivered, dispVars>>
       /\ (client # 0 /\ client' # client) =>
            (client' = 0 /\ pc = "read" /\ pos = Len(sent))
       /\ (client' # 0 /\ client' # client) =>
            (client = 0 /\ pc = "accept" /\ pending' = pending - 1)
     ]_vars

\* the second peer waited in the queue while bytes were read from the
\* first, and is served (a frame of its own completed) after the first
\* disconnected
C15_Witness ==
  /\ prog = "stream" /\ read_while_pending
  /\ client = 2 /\ Len(delivered) >= 1

\* ---- C16 ----------------------------------------------------------------
\* C16: (a) a read that returns fewer bytes than the frame still needs is
\* continued at the cursor: the bytes already in the buffer stay, the new
\* ones follow them, and nothing is rendered; (b) a read that returns 0 or
\* an error closes the client, leaves the display and the delivered frames
\* as they are and goes back to the accept loop; (c) the cursor is 0 when
\* a connection has just been accepted; (d) a frame being rendered consists
\* of expected_size consecutive bytes of the stream of the one connection
\* being served.
C16_ShortReadAndDisconnect ==
  [][prog = "stream" =>
       /\ (pc = "read" /\ pos' > pos /\ total' < expected_size) =>
            /\ pc' = "read" /\ total' = total + (pos' - pos)
            /\ \A k \in 1..total : buffer'[k] = buffer[k]
            /\ \A k \in (total + 1)..total' :
                 buffer'[k] = sent[pos + (k - total)]
            /\ UNCHANGED <<front, canvas, delivered>>
       /\ (client # 0 /\ client' = 0) =>
            /\ pc' = LoopTest(interrupt_received, "accept")
            /\ open_clients' = {}
            /\ UNCHANGED <<front, offscreen, canvas, delivered>>
       /\ (client' # 0 /\ client' # client) => total' = 0
       /\ pc' = "render" =>
            /\ sent' = StreamOf(client', Len(sent'))
            /\ pos' >= expected_size
            /\ buffer' = SubSeq(sent', pos' - expected_size + 1, pos')
     ]_vars

\* the first connection ended inside a frame; its bytes are still in the
\* buffer beyond the cursor while the second connection, after a short
\* read, is filling the buffer from the start
C16_Witness ==
  /\ prog = "stream" /\ pc = "read" /\ client = 2 /\ front = "c0"
  /\ total > 0 /\ total < expected_size - 1
  /\ buffer[1] = StreamByte(2, 0)
  /\ buffer[expected_size - 1] = StreamByte(1, expected_size - 2)
  /\ buffer[expected_size] = 0

\* ---- C17 ----------------------------------------------------------------
\* display pixel index written for buffer pixel q (row q / W, column q % W)
FlippedIndex(q) ==
  (LOGICAL_HEIGHT - 1 - (q \div LOGICAL_WIDTH)) * LOGICAL_WIDTH
    + (q % LOGICAL_WIDTH)

\* C17: each step of the stream render loop takes the RGB triple at byte
\* offset (y_buf * WIDTH + x) * 3 of the frame and writes it to pixel
\* (x, HEIGHT - 1 - y_buf) of the offscreen canvas and to no other pixel;
\* that pixel was not written earlier in the same frame; the swap happens
\* when all WIDTH * HEIGHT pixels were written; and the row transform
\* applied twice is the identity.
C17_VerticalFlip ==
  [][prog = "stream" =>
       /\ (pc = "render" /\ rp' = rp + 1) =>
            LET y_buf == rp \div LOGICAL_WIDTH
                x == rp % LOGICAL_WIDTH
                off == (y_buf * LOGICAL_WIDTH + x) * 3
                target == (LOGICAL_HEIGHT - 1 - y_buf) * LOGICAL_WIDTH + x
            IN /\ canvas'[offscreen][target] =
                    <<buffer[off + 1], buffer[off + 2], buffer[off + 3]>>
               /\ \A i \in 0..(LOGICAL_WIDTH * LOGICAL_HEIGHT - 1) :
                    i # target => canvas'[offscreen][i] = canvas[offscreen][i]
               /\ canvas'[front] = canvas[front]
               /\ \A q \in 0..(rp - 1) : FlippedIndex(q) # target
               /\ FlipY(FlipY(y_buf)) = y_buf
       /\ front' # front => rp = LOGICAL_WIDTH * LOGICAL_HEIGHT
     ]_vars

\* a whole frame was written: the display's top-left pixel holds the first
\* pixel of the frame's last row, which differs from the frame's first pixel
C17_Witness ==
  /\ prog = "stream" /\ pc = "render"
  /\ rp = LOGICAL_WIDTH * LOGICAL_HEIGHT
  /\ LET off == (LOGICAL_HEIGHT - 1) * LOGICAL_WIDTH * 3
     IN /\ canvas[offscreen][0] =
             <<buffer[off + 1], buffer[off + 2], buffer[off + 3]>>
        /\ canvas[offscreen][0] # <<buffer[1], buffer[2], buffer[3]>>

\* ---- C18 ----------------------------------------------------------------
\* the canvas on display, or a pixel of it, changes in this step
DisplayChanges == front' # front \/ canvas'[front'] # canvas[front]

\* this step is the swap of a fully rendered offscreen canvas
SwapStep ==
  /\ pc = "render" /\ front' = offscreen /\ offscreen' = front
  /\ canvas' = canvas
  /\ prog = "udp" => (RenderDone(rp) /\ received_packets = expected_packets)
  /\ prog = "stream" => (StreamRenderDone(rp) /\ total = expected_size)

\* what is on display changes only by the swap of a fully rendered canvas
\* (or by the clear at shutdown): a dropped datagram, a chunk of an
\* incomplete or superseding frame, a disconnect or a partial read leaves
\* the display as it is
DisplayChangesOnlyBySwap ==
  [][(prog \in {"udp", "stream"} /\ pc # "exit" /\ DisplayChanges)
       => SwapStep]_vars

\* C18: the display changes only by the swap performed when a frame
\* completes: the display changes only in the swap that ends a render, and
\* a render starts only in a step in which a frame completes (the datagram
\* received raises the count of its frame to the expected count; the read
\* brings the cursor to the frame size).
C18_DisplayChangesOnlyOnCompletion ==
  [][(prog \in {"udp", "stream"} /\ pc # "exit") =>
       /\ DisplayChanges => SwapStep
       /\ (prog = "udp" /\ pc = "recv" /\ pc' = "render") =>
            /\ received_packets' = expected_packets'
            /\ \/ current_frame_id' # current_frame_id
               \/ received_packets' > received_packets
       /\ (prog = "stream" /\ pc = "read" /\ pc' = "render") =>
            (total' = expected_size /\ total < expected_size)
     ]_vars

\* ---- C19 ----------------------------------------------------------------
\* a frame that completes is rendered whatever its frame_id: the step in
\* which the count of a frame reaches the expected count starts the render
\* of exactly the bytes the frame has at that step
CompletionStartsRender ==
  [][(prog = "udp" /\ Len(completed') > Len(completed)) =>
       /\ pc' = "render" /\ rp' = 0
       /\ frame_buf' = completed'[Len(completed')][2]]_vars

\* C19: once at least one frame has completed, the receiver waiting for the
\* next datagram has the content of the most recently completed frame on
\* display, whatever the order of the frame ids.
C19_LatestCompleteFrameOnDisplay ==
  (prog = "udp" /\ pc = "recv" /\ completed # <<>>) =>
    ShowsFrame(front, completed[Len(completed)][2])

\* two frames completed one after the other, the later one with the
\* numerically lower frame_id, and the later one is on display
LowerIdPresentedLater ==
  /\ prog = "udp" /\ pc = "recv" /\ Len(completed) = 2
  /\ completed[2][1] < completed[1][1]
  /\ completed[2][2] # completed[1][2]
  /\ ShowsFrame(front, completed[2][2])

\* ---- C20 ----------------------------------------------------------------
\* once the flag is set and the receiver is not blocked in recv, the loop
\* ends at its next test and the shutdown sequence runs to its end, leaving
\* the display cleared
ExitsAtNextLoopTest ==
  (prog = "udp" /\ interrupt_received /\ pc \in {"render", "exit"})
    ~> (pc = "done")

ShutdownClearsDisplay ==
  (prog = "udp" /\ pc = "done") =>
    (interrupt_received /\ canvas[front] = BlankCanvas)

\* C20: once a shutdown signal has set the interrupt flag, the datagram
\* receiver eventually leaves its loop and completes the shutdown sequence,
\* whether or not a further datagram arrives.
C20_TerminatesOnSignal ==
  (prog = "udp" /\ interrupt_received /\ pc \in {"recv", "render", "exit"})
    ~> (pc = "done")

\* ---- C21 ----------------------------------------------------------------
\* once the flag is set and the daemon is not blocked in accept or in a
\* read, both loops end at their next test and shutdown completes
StreamExitsAtNextLoopTest ==
  (prog = "stream" /\ interrupt_received /\ pc \in {"render", "exit"})
    ~> (pc = "done")

\* nothing is presented once the loops have ended
NoSwapDuringShutdown ==
  [][(prog = "stream" /\ pc \in {"exit", "done"}) => front' = front]_vars

\* C21: once a shutdown signal has set the interrupt flag, the stream
\* daemon eventually leaves the serve loop and the accept loop and
\* completes the shutdown sequence, whether the signal arrived while it
\* waited for a connection, in the middle of a frame or between frames.
C21_StreamTerminatesOnSignal ==
  (prog = "stream" /\ interrupt_received
     /\ pc \in {"accept", "read", "render", "exit"}) ~> (pc = "done")

\* ---- C22 ----------------------------------------------------------------
\* C22: a setup call that fails (matrix creation, socket, bind, listen)
\* ends the process with a non-zero status and a diagnostic naming the
\* call, and the process never enters its main loop: it has received
\* nothing, accepted nobody and drawn nothing, and takes no further step.
\* The main loop is entered only from the last setup call of the program,
\* with no failure reported.
C22_SetupFailureIsFatal ==
  [][/\ pc # "failed"
     /\ pc' = "failed" =>
          /\ pc \in AllSetupStages
          /\ exit_status' = 1
          /\ diag' = Diagnostic(pc) /\ diag' # ""
          /\ nrecv' = 0 /\ nconn' = 0 /\ pending' = 0
          /\ front' = "c0" /\ canvas' = [h \in Handles |-> BlankCanvas]
     /\ (pc \in AllSetupStages /\ pc' \notin AllSetupStages \cup {"failed"}) =>
          /\ pc = SetupStages(prog)[Len(SetupStages(prog))]
          /\ exit_status' = -1 /\ diag' = ""
     /\ exit_status' = 1 => pc' = "failed"
    ]_vars

\* the stream daemon's listen call failed after the three calls before it
\* succeeded
C22_Witness ==
  /\ prog = "stream" /\ pc = "failed" /\ exit_status = 1 /\ diag = "listen"

C24_WireFormat ==
  (prog = "udp" /\ pc = "recv") =>
    \A d \in Datagrams :
      LET buf == Recv(d) IN
      Len(buf) >= HEADER_SIZE =>
        LET hdr == ParseHeader(buf)
            r == Offer(RS, buf)
            off == (256 * buf[3] + buf[4]) * CHUNK_SIZE
            plen == Min(Len(buf) - HEADER_SIZE, FRAME_BYTES - off)
            before == IF 256 * buf[1] + buf[2] # current_frame_id
                      THEN Zeros ELSE frame_buf
        IN /\ hdr.frame_id = 256 * buf[1] + buf[2]
           /\ hdr.packet_index = 256 * buf[3] + buf[4]
           /\ hdr.total_packets = 256 * buf[5] + buf[6]
           /\ r.reached =>
                /\ r.st.current_frame_id = 256 * buf[1] + buf[2]
                /\ \A k \in 1..FRAME_BYTES :
                     r.st.frame_buf[k] =
                       IF k > off /\ k <= off + plen
                       THEN buf[HEADER_SIZE + (k - off)]
                       ELSE before[k]

\* a frame whose id has both bytes set was decoded and completed, and then
\* a chunk with a non-zero index was accepted: its payload stands at its
\* offset
C24_Witness ==
  /\ prog = "udp" /\ pc = "recv"
  /\ completed # <<>> /\ completed[1][1] = 65535
  /\ expected_packets = NumChunks
  /\ \E d \in OfferedSet :
       /\ HdrOf(d).packet_index = 1
       /\ PayloadLenOf(d) = CHUNK_SIZE
       /\ frame_buf[CHUNK_SIZE + 1] = d[HEADER_SIZE + 1]

\* ---- C25 ----------------------------------------------------------------
\* the datagrams received since startup are exactly the chunks of frame f,
\* each once
OnlyFrameSinceStartup(f) ==
  /\ prog = "udp" /\ pc = "recv" /\ nrecv = NumChunks
  /\ BagCardinality(offered) = NumChunks
  /\ OfferedSet = WellFormed(f[1], f[2])

\* the first frame after startup is delivered when its frame_id is not 0
FirstFrameDeliveredUnlessIdZero ==
  \A f \in SentFrames :
    (f[1] # 0 /\ OnlyFrameSinceStartup(f)) =>
      (frame_buf = FrameData(f[2]) /\ ShowsFrame(front, FrameData(f[2])))

\* C25: if the datagrams received since startup are exactly the chunks of
\* one complete well-formed frame, that frame has been delivered (it is in
\* frame_buf and on display), whatever its frame_id, 0 included.
C25_FirstFrameDeliveredForEveryId ==
  \A f \in SentFrames :
    OnlyFrameSinceStartup(f) =>
      (frame_buf = FrameData(f[2]) /\ ShowsFrame(front, FrameData(f[2])))

\* ---- C26 ----------------------------------------------------------------
\* the received bytes buf with the total_packets field replaced
WithTotal(buf, total_packets) ==
  SubSeq(buf, 1, 4) \o U16(total_packets) \o SubSeq(buf, 7, Len(buf))

SomeTotals == {0, 1, NumChunks, NumChunks + 1, 65535}

\* a chunk with another frame_id sets the expected count from its own
\* total_packets field
NewIdSetsExpectedCount ==
  (prog = "udp" /\ pc = "recv") =>
    \A d \in Datagrams :
      (Len(Recv(d)) >= HEADER_SIZE
       /\ HdrOf(Recv(d)).frame_id # current_frame_id) =>
        Offer(RS, Recv(d)).st.expected_packets = HdrOf(Recv(d)).total_packets

\* a chunk with the current frame_id leaves the expected count alone, and
\* the outcome of offering it does not depend on its total_packets field
LaterTotalNotExamined ==
  (prog = "udp" /\ pc = "recv") =>
    \A d \in Datagrams :
      (Len(Recv(d)) >= HEADER_SIZE
       /\ HdrOf(Recv(d)).frame_id = current_frame_id) =>
        /\ Offer(RS, Recv(d)).st.expected_packets = expected_packets
        /\ \A tot \in SomeTotals :
             Offer(RS, WithTotal(Recv(d), tot)) = Offer(RS, Recv(d))

\* a later chunk of the current frame_id with a total_packets field other
\* than the expected count was offered
LaterChunkWithOtherTotalOffered ==
  /\ prog = "udp" /\ expected_packets = NumChunks /\ received_packets = 2
  /\ \E d \in OfferedSet : HdrOf(d).total_packets \notin {0, NumChunks}
  /\ \E d \in OfferedSet : HdrOf(d).total_packets = 0

\* C26: the expected count is the total_packets field of the first chunk
\* received for the current frame_id (so it is the field of some chunk
\* received for it), and a later chunk with the same frame_id neither
\* changes the expected count nor has its total_packets field examined.
C26_ExpectedCountFixedByFirstChunk ==
  /\ (prog = "udp" /\ offered # EmptyBag) =>
       \E d \in OfferedSet : HdrOf(d).total_packets = expected_packets
  /\ NewIdSetsExpectedCount
  /\ LaterTotalNotExamined

\* the same, for every current frame_id other than the initial one
ExpectedCountFixedUnlessIdZero ==
  (prog = "udp" /\ offered # EmptyBag /\ current_frame_id # 0) =>
     \E d \in OfferedSet : HdrOf(d).total_packets = expected_packets

\* ---- C27 ----------------------------------------------------------------
BadTotal(total_packets) == total_packets = 0 \/ total_packets > NumChunks

\* C27: a frame whose first chunk declares total_packets = 0 or more than
\* NumChunks is never delivered: the first chunk fixes that expected count
\* and does not complete the frame; while the expected count is such a
\* value no chunk with the same frame_id completes the frame, a chunk at
\* an offset beyond the frame is dropped without being counted, the count
\* stays below an expected count above NumChunks, and no render is under
\* way.
C27_BadTotalNeverDelivered ==
  /\ (prog = "udp" /\ pc = "render") => ~BadTotal(expected_packets)
  /\ (prog = "udp" /\ expected_packets > NumChunks) =>
       received_packets <= NumChunks
  /\ (prog = "udp" /\ pc = "recv") =>
       \A d \in Datagrams :
         LET buf == Recv(d)
             r == Offer(RS, buf)
         IN Len(buf) >= HEADER_SIZE =>
              /\ (HdrOf(buf).frame_id # current_frame_id
                  /\ BadTotal(HdrOf(buf).total_packets)) =>
                   /\ r.st.expected_packets = HdrOf(buf).total_packets
                   /\ ~(r.reached /\ IsComplete(r.st))
              /\ (HdrOf(buf).frame_id = current_frame_id
                  /\ BadTotal(expected_packets)) =>
                   /\ r.st.expected_packets = expected_packets
                   /\ ~(r.reached /\ IsComplete(r.st))
                   /\ OffsetOf(buf) >= FRAME_BYTES =>
                        (~r.reached /\ r.st = RS)

\* a first chunk declared NumChunks + 1 chunks at an offset beyond the
\* frame, every chunk that fits in the frame followed, and the frame is
\* still incomplete
C27_Witness ==
  /\ prog = "udp" /\ pc = "recv"
  /\ expected_packets = NumChunks + 1
  /\ received_packets = NumChunks
  /\ \E d \in OfferedSet : OffsetOf(d) >= FRAME_BYTES

\* a first chunk declared 0 chunks and two more chunks of its frame_id
\* followed
ZeroTotalFrameOffered ==
  /\ prog = "udp" /\ pc = "recv"
  /\ expected_packets = 0 /\ current_frame_id = 2
  /\ BagCardinality(offered) = 3

\* ---- C28 ----------------------------------------------------------------
DeclaredTotals == {HdrOf(d).total_packets : d \in OfferedSet}

\* every chunk received for the current frame_id declares the same total T,
\* and every index below T was seen
AllDeclaredIndicesSeen ==
  \E T \in 1..NumChunks :
    /\ DeclaredTotals = {T}
    /\ \A i \in 0..(T - 1) : \E d \in OfferedSet : HdrOf(d).packet_index = i

\* frame byte k (from 1) lies in the payload of a chunk received for the
\* current frame_id with an index below the declared total
Covered(k) ==
  \E d \in OfferedSet :
    /\ HdrOf(d).packet_index < HdrOf(d).total_packets
    /\ OffsetOf(d) < k /\ k <= OffsetOf(d) + PayloadLenOf(d)

\* the current frame was delivered: complete by count against the declared
\* total, its completion was the last one, it is being rendered or is on
\* display, every covered byte is a byte of a received payload and every
\* uncovered byte is zero
DeliveredZeroFilled ==
  /\ received_packets = expected_packets
  /\ expected_packets \in DeclaredTotals
  /\ completed # <<>>
  /\ completed[Len(completed)][1] = current_frame_id
  /\ pc = "recv" => ShowsFrame(front, frame_buf)
  /\ \A k \in 1..FRAME_BYTES :
       IF Covered(k)
       THEN \E d \in OfferedSet :
              /\ OffsetOf(d) < k /\ k <= OffsetOf(d) + PayloadLenOf(d)
              /\ frame_buf[k] = d[HEADER_SIZE + (k - OffsetOf(d))]
       ELSE frame_buf[k] = 0

\* the count-only rule, for every current frame_id other than the initial
\* one
CountOnlyCompletionUnlessIdZero ==
  (prog = "udp" /\ pc \in {"recv", "render"} /\ current_frame_id # 0
   /\ AllDeclaredIndicesSeen) => DeliveredZeroFilled

\* a frame with a short and an empty payload was delivered with zeros in
\* the uncovered bytes
ShortPayloadFrameDelivered ==
  /\ prog = "udp" /\ pc = "recv" /\ current_frame_id # 0
  /\ AllDeclaredIndicesSeen /\ DeclaredTotals = {NumChunks}
  /\ \E d \in OfferedSet : PayloadLenOf(d) = 0
  /\ \E d \in OfferedSet : PayloadLenOf(d) \in 1..(CHUNK_SIZE - 1)
  /\ \E k \in 1..FRAME_BYTES : ~Covered(k)

\* C28: completion is judged by the count of distinct indices alone: once
\* every declared index of the current frame was seen, the frame is
\* delivered (also when fewer chunks are declared than cover the frame, and
\* when payloads are short or empty), and every frame byte no received
\* payload covers is zero in it.
C28_CountOnlyCompletion ==
  (prog = "udp" /\ pc \in {"recv", "render"} /\ AllDeclaredIndicesSeen) =>
     DeliveredZeroFilled

\* ---- C29 ----------------------------------------------------------------
\* the memory accesses of one loop iteration on the received bytes buf stay
\* inside recv_buf, frame_buf and got_packet
AccessesInBounds(st, buf) ==
  /\ Len(buf) <= HEADER_SIZE + CHUNK_SIZE
  /\ Len(buf) >= HEADER_SIZE =>
       LET hdr == ParseHeader(buf)
           payload_len == Len(buf) - HEADER_SIZE
           s1 == IF IsNewFrame(hdr.frame_id, st.current_frame_id)
                 THEN NewFrame(st, hdr) ELSE st
           offset == hdr.packet_index * CHUNK_SIZE
           copy_len == CopyLen(offset, payload_len)
       IN /\ Len(s1.frame_buf) = FRAME_BYTES
          /\ Len(s1.got_packet) = s1.expected_packets
          /\ (/\ payload_len <= CHUNK_SIZE
              /\ IndexInRange(hdr.packet_index, s1.expected_packets)
              /\ OffsetInRange(offset)) =>
               /\ copy_len >= 0
               /\ offset + copy_len <= FRAME_BYTES
               /\ HEADER_SIZE + copy_len <= Len(buf)
               /\ hdr.packet_index < Len(s1.got_packet)

\* further datagrams with header fields at and beyond the limits
AnyHeaderDatagrams ==
  { Dgram(0, 65535, NumChunks + 1, <<>>),
    Dgram(1, 65535, NumChunks, ChunkOf(1, 0)),
    Dgram(2, NumChunks + 1, NumChunks + 1, ChunkOf(1, 0) \o <<1>>),
    Dgram(65535, NumChunks, NumChunks + 1, ChunkOf(1, 0)),
    Dgram(65535, NumChunks - 1, NumChunks, <<1>>),
    Dgram(0, 0, 0, <<1>>) }

\* C29: whatever datagram arrives next, the receiver accesses no memory out
\* of bounds: the copy into frame_buf satisfies offset + copy_len <=
\* FRAME_BYTES, the got_packet index is below got_packet's length, the
\* payload read stays within the received bytes, frame_buf keeps its length
\* WIDTH*HEIGHT*3, and the render reads pixels inside frame_buf.
C29_NoOutOfBoundsAccess ==
  prog = "udp" =>
    /\ Len(frame_buf) = WIDTH * HEIGHT * 3
    /\ Len(got_packet) = expected_packets
    /\ (pc = "render" /\ ~RenderDone(rp)) =>
         (rp >= 0 /\ 3 * rp + 3 <= Len(frame_buf))
    /\ pc = "recv" =>
         /\ \A d \in Datagrams : AccessesInBounds(RS, Recv(d))
         /\ \A d \in AnyHeaderDatagrams : AccessesInBounds(RS, Recv(d))

\* a datagram longer than recv_buf was cut to it and its payload copied up
\* to the last byte of frame_buf, after a chunk with index = total was
\* dropped
C29_Witness ==
  /\ prog = "udp" /\ pc = "recv"
  /\ Recv(Dgram(1, NumChunks - 1, NumChunks,
                ChunkOf(6, NumChunks - 1) \o <<99>>)) \in OfferedSet
  /\ frame_buf[FRAME_BYTES] = FrameData(6)[FRAME_BYTES]
  /\ \E d \in OfferedSet : HdrOf(d).packet_index >= expected_packets

\* ---- C30 ----------------------------------------------------------------
\* a frame with frame_id 65535 was completed earlier
Frame65535Completed ==
  \E j \in 1..Len(completed) : completed[j][1] = 65535

\* C30: frame_id wraps harmlessly. While the current frame_id is 65535, a
\* chunk with frame_id 0 starts a new frame exactly as it does after any
\* other frame_id; and a complete well-formed frame 0 received after a
\* frame 65535 is delivered.
C30_FrameIdWraps ==
  /\ (prog = "udp" /\ pc = "recv" /\ current_frame_id = 65535) =>
       \A d \in Datagrams :
         (Len(Recv(d)) >= HEADER_SIZE /\ HdrOf(Recv(d)).frame_id = 0) =>
           LET r == Offer(RS, Recv(d)) IN
           /\ r.st.current_frame_id = 0
           /\ r.st.expected_packets = HdrOf(Recv(d)).total_packets
           /\ r = Offer([RS EXCEPT !.current_frame_id = 1], Recv(d))
           /\ r.reached =>
                (/\ r.st.received_packets = 1
                 /\ r.st.frame_buf =
                      Memcpy(Zeros, OffsetOf(Recv(d)), Recv(d), HEADER_SIZE,
                             PayloadLenOf(Recv(d))))
  /\ (/\ prog = "udp" /\ pc \in {"recv", "render"}
      /\ current_frame_id = 0 /\ Frame65535Completed
      /\ OfferedSet = WellFormed(0, 1)) =>
       /\ frame_buf = FrameData(1)
       /\ received_packets = NumChunks /\ expected_packets = NumChunks
       /\ completed[Len(completed)] = <<0, FrameData(1)>>
       /\ pc = "recv" => ShowsFrame(front, FrameData(1))

\* frame 65535 was completed and shown, then the chunks of frame 0 arrived
\* and frame 0 is on display
C30_Witness ==
  /\ prog = "udp" /\ pc = "recv"
  /\ Len(completed) = 2
  /\ completed[1][1] = 65535
  /\ completed[2] = <<0, FrameData(1)>>
  /\ current_frame_id = 0
  /\ ShowsFrame(front, FrameData(1))

\* ---- C31 ----------------------------------------------------------------
\* every pixel of canvas h holds the pattern's colour for frame time tick
AllPixelsWritten(h, tick) ==
  \A i \in 0..(WIDTH * HEIGHT - 1) :
    canvas[h][i] = Shader(i % WIDTH, i \div WIDTH, tick)

\* this step of the local pattern source is a swap
LocalSwapStep == prog = "local" /\ front' # front

\* a swap presents a canvas whose WIDTH*HEIGHT pixels were all written for
\* this frame; a swap made with the flag set is the last one: the loop is
\* left, nothing is swapped afterwards, and the only step left clears the
\* display and ends the process with status 0
LocalSwapsFullFramesOnceAfterFlag ==
  [][/\ LocalSwapStep =>
          /\ pc = "render" /\ rp = WIDTH * HEIGHT
          /\ AllPixelsWritten(offscreen, t)
          /\ front' = offscreen /\ offscreen' = front
          /\ interrupt_received => pc' = "exit"
     /\ (prog = "local" /\ pc \in {"exit", "done"}) =>
          /\ front' = front
          /\ pc' # pc => (/\ pc = "exit" /\ pc' = "done"
                          /\ canvas'[front'] = BlankCanvas
                          /\ exit_status' = 0)]_vars

\* C31: the local pattern source writes all WIDTH*HEIGHT pixels of the
\* offscreen canvas before each swap; after the interrupt flag is set it
\* swaps at most once more, leaves its loop, clears the display and
\* terminates.
C31_LocalFullFramesAndShutdown ==
  /\ LocalSwapsFullFramesOnceAfterFlag
  /\ (prog = "local" /\ interrupt_received)
       ~> (pc = "done" /\ canvas[front] = BlankCanvas /\ exit_status = 0)

\* the flag was set during the render of a later frame, that frame was
\* swapped, and the process ended with the display cleared
C31_Witness ==
  /\ prog = "local" /\ pc = "done" /\ interrupt_received
  /\ exit_status = 0 /\ canvas[front] = BlankCanvas
  /\ t >= 1 /\ rp = WIDTH * HEIGHT
  /\ AllPixelsWritten(offscreen, t - 1) \/ AllPixelsWritten(offscreen, t)

\* ---- C32 ----------------------------------------------------------------
\* the last call of compileAndUseShader failed: WebGL was not initialized,
\* the fragment shader did not compile, or the program did not link
LastCallFailed ==
  \/ ~last_call.before.gl \/ last_call.before.vertexShader = 0
  \/ ~last_call.compiles
  \/ ~last_call.links

\* C32: after a call of compileAndUseShader that failed, currentProgram and
\* uniformLocations have the values they had before the call, the previous
\* program was not deleted, no GL object of the attempt is left, and the
\* log shows an error; after a call that compiled and linked, the previous
\* program is deleted, currentProgram is the new program and the uniform
\* locations are those of the new program.
C32_FailedCompileKeepsProgram ==
  (prog = "editor" /\ last_call.made) =>
    LET b == last_call.before IN
    IF LastCallFailed
    THEN /\ currentProgram = b.currentProgram
         /\ uniformLocations = b.uniformLocations
         /\ gl_live = b.gl_live
         /\ currentProgram # 0 => currentProgram \in gl_live
         /\ errorLog.present =>
              (errorLog.error /\ errorLog.textContent # "")
    ELSE /\ currentProgram # 0
         /\ currentProgram \notin b.gl_live
         /\ currentProgram \in gl_live
         /\ uniformLocations = currentProgram
         /\ b.currentProgram # 0 => b.currentProgram \notin gl_live
         /\ errorLog.present => ~errorLog.error

\* two sources compiled and linked, the first program was deleted when the
\* second was installed, then a source failed to link: the second program
\* is still the current one and the log shows the link error
C32_Witness ==
  /\ prog = "editor" /\ last_call.made
  /\ last_call.compiles /\ ~last_call.links
  /\ gl_created = 7
  /\ currentProgram = 5 /\ uniformLocations = 5
  /\ gl_live = {1, 2, 4, 5}
  /\ errorLog.present /\ errorLog.error
  /\ errorLog.textContent = "Program link error"
=============================================================================
